---- MODULE Spec2Model ----
(***************************************************************************)
(* Model of src/main.rs: a scan of the saved wireless profiles of every    *)
(* WLAN interface.  main() is a sequential program; each action below is   *)
(* one step of it, located by pc.  The operating system (Wlan* calls) and  *)
(* the XML parser are collaborators whose answers are chosen with \E.      *)
(***************************************************************************)
EXTENDS Naturals, Integers, Sequences, FiniteSets, TLC

(* ---------------------------- bounds ---------------------------------- *)
\* largest dwNumberOfItems of the interface list
MaxIfaces == 2
\* largest dwNumberOfItems of a profile list
MaxProfiles == 2
\* length of a fixed-size wide-character name buffer (256 in the OS headers)
BufLen == 2
\* most children of a node below the root, in the trees the query is tried on
MaxKids == 2
\* longest path the query is tried with
MaxPath == 2

(* ------------------------- Option<T> values --------------------------- *)
\* Option<T> is a sequence of length at most one.
None == <<>>
Some(v) == <<v>>
IsSome(o) == Len(o) = 1
Unwrap(o) == o[1]

(* --------------------- wide-character name buffers -------------------- *)
\* UTF-16 code units a buffer may hold: NUL, 'A' and a high surrogate, which
\* no low surrogate follows.
CodeUnits == {0, 65, 55296}
Buffers == [1..BufLen -> CodeUnits]

IsHighSurrogate(u) == u >= 55296 /\ u <= 56319
IsLowSurrogate(u) == u >= 56320 /\ u <= 57343

\* string_slice.iter().position(|c| c == &0): index (1-based) of the first
\* NUL, 0 when there is none.
position(s) == IF \E k \in 1..Len(s) : s[k] = 0
               THEN CHOOSE k \in 1..Len(s) : s[k] = 0 /\ \A h \in 1..(k-1) : s[h] # 0
               ELSE 0

\* parse_utf16_slice: None without a NUL, otherwise the code units before
\* the first NUL (OsString::from_wide keeps every code unit).
parse_utf16_slice(string_slice) ==
    LET null_index == position(string_slice)
    IN IF null_index = 0 THEN None
       ELSE Some(SubSeq(string_slice, 1, null_index - 1))

\* OsStr::to_string_lossy: a surrogate pair becomes one supplementary code
\* point, an unpaired surrogate becomes U+FFFD, any other unit is kept.
RECURSIVE to_string_lossy(_)
to_string_lossy(w) ==
    IF w = <<>> THEN <<>>
    ELSE IF IsHighSurrogate(w[1]) /\ Len(w) >= 2 /\ IsLowSurrogate(w[2])
         THEN <<65536 + (w[1] - 55296) * 1024 + (w[2] - 56320)>>
                  \o to_string_lossy(SubSeq(w, 3, Len(w)))
         ELSE IF IsHighSurrogate(w[1]) \/ IsLowSurrogate(w[1])
              THEN <<65533>> \o to_string_lossy(Tail(w))
              ELSE <<w[1]>> \o to_string_lossy(Tail(w))

(* ------------------------- the parsed document ------------------------ *)
\* A DOM node: elements have children and no value of their own; any other
\* node (text, processing instruction) has a value and no children.
El(n, kids) == [name |-> n, elem |-> TRUE, text |-> "", kids |-> kids]
Txt(s) == [name |-> "#text", elem |-> FALSE, text |-> s, kids |-> <<>>]
PI(n, s) == [name |-> n, elem |-> FALSE, text |-> s, kids |-> <<>>]
Leaf(n, s) == El(n, IF s = "" THEN <<>> ELSE <<Txt(s)>>)

\* IXmlNode::InnerText: the node's value, for an element the concatenation
\* of the inner text of its children in document order.
RECURSIVE InnerText(_)
RECURSIVE InnerTextOf(_)
InnerTextOf(kids) ==
    IF kids = <<>> THEN "" ELSE InnerText(Head(kids)) \o InnerTextOf(Tail(kids))
InnerText(node) == IF node.elem THEN InnerTextOf(node.kids) ELSE node.text

\* A variant of scan that takes a last node without text for no node.
RECURSIVE scan_EmptyIsNone(_, _, _, _)
scan_EmptyIsNone(kids, j, node_path, i) ==
    IF j > Len(kids) THEN None
    ELSE IF kids[j].name = node_path[i]
         THEN IF i = Len(node_path)
              THEN IF InnerText(kids[j]) = "" THEN None
                   ELSE Some(InnerText(kids[j]))
              ELSE IF kids[j].elem
                   THEN scan_EmptyIsNone(kids[j].kids, 1, node_path, i + 1)
                   ELSE scan_EmptyIsNone(kids, j + 1, node_path, i)
         ELSE scan_EmptyIsNone(kids, j + 1, node_path, i)

\* traverse_xml_tree, lines 77-108.  walk(node, i) is the outer loop at path
\* index i with current_node = node; scan(kids, j, i) is the inner loop at
\* child index j.
RECURSIVE walk(_, _, _)
RECURSIVE scan(_, _, _, _)
scan(kids, j, node_path, i) ==
    IF j > Len(kids) THEN None                       \* !found: return None
    ELSE IF kids[j].name = node_path[i]
         THEN IF i = Len(node_path)
              THEN Some(InnerText(kids[j]))          \* last segment: its text
              ELSE IF kids[j].elem                   \* cast::<XmlElement>() is Ok
                   THEN walk(kids[j], node_path, i + 1)
                   ELSE scan(kids, j + 1, node_path, i)
         ELSE scan(kids, j + 1, node_path, i)
\* A variant of walk that gives the text of the node it stands on when the
\* path is used up.
walk_TextAtEnd(current_node, node_path, i) ==
    IF i > Len(node_path) THEN Some(InnerText(current_node))
    ELSE scan(current_node.kids, 1, node_path, i)
walk(current_node, node_path, i) ==
    IF i > Len(node_path) THEN None                  \* loop over: return None
    ELSE scan(current_node.kids, 1, node_path, i)
traverse_xml_tree(xml, node_path) == walk(xml, node_path, 1)

AuthPath == <<"MSM", "security", "authEncryption", "authentication">>
KeyPath == <<"MSM", "security", "sharedKey", "keyMaterial">>

(* ------------- documents the OS may hand out for a profile ------------ *)
\* <authEncryption> with an optional <authentication> text.
AuthEncryption(a) ==
    El("authEncryption",
       IF a = None THEN <<Leaf("encryption", "AES")>>
       ELSE <<Leaf("authentication", Unwrap(a)), Leaf("encryption", "AES")>>)
\* <sharedKey> with an optional <keyMaterial> text.
SharedKey(k) ==
    IF k = None THEN <<>>
    ELSE <<El("sharedKey", <<Leaf("keyType", "passPhrase"),
                              Leaf("keyMaterial", Unwrap(k))>>)>>
\* A profile document of the usual shape.
WLANProfile(a, k) ==
    El("WLANProfile",
       <<Leaf("name", "net"),
         El("MSM", <<El("security", <<AuthEncryption(a)>> \o SharedKey(k))>>)>>)

AuthTexts == {None, Some(""), Some("open"), Some("WPA2"), Some("WPA2PSK"),
              Some("WEP"), Some("wpa2psk")}
KeyTexts == {None, Some("hunter2")}

\* Documents of other shapes: an empty key, a <sharedKey> without
\* <keyMaterial>, no <MSM>, two <security> siblings of which only the second
\* holds the authentication, a processing instruction named MSM before the
\* element, and an <authentication> whose text is spread over a child.
OddTrees ==
    { WLANProfile(Some("WPA2PSK"), Some("")),
      El("WLANProfile",
         <<El("MSM", <<El("security",
              <<AuthEncryption(Some("WPA2")),
                El("sharedKey", <<Leaf("keyType", "passPhrase")>>)>>)>>)>>),
      El("WLANProfile", <<Leaf("name", "net")>>),
      El("WLANProfile",
         <<El("MSM", <<El("security", <<>>),
                       El("security", <<AuthEncryption(Some("open"))>>)>>)>>),
      El("WLANProfile",
         <<PI("MSM", "x"),
           El("MSM", <<El("security", <<AuthEncryption(Some("WPA2PSK"))>>
                                           \o SharedKey(Some("hunter2")))>>)>>),
      El("WLANProfile",
         <<El("MSM", <<El("security",
              <<El("authEncryption",
                   <<El("authentication", <<Txt("WPA2"), Leaf("x", "PSK")>>)>>)>>
                  \o SharedKey(Some("hunter2")))>>)>>) }

Trees == {WLANProfile(a, k) : a \in AuthTexts, k \in KeyTexts} \cup OddTrees

\* What WlanGetProfile may return on success: text that is not valid
\* UTF-16, text the parser rejects, text whose document has no document
\* element, or the text of a tree.
NoTree == El("", <<>>)
RawDocs == { [kind |-> "invalid_utf16", tree |-> NoTree],
             [kind |-> "malformed", tree |-> NoTree],
             [kind |-> "no_root", tree |-> NoTree] }
           \cup { [kind |-> "xml", tree |-> t] : t \in Trees }

(* ------------------------------ state --------------------------------- *)
VARIABLES
    pc,            \* position in main()
    exit_code,     \* process exit status, -1 while running
    mem,           \* per natively owned resource: acquired?, times released
    used,          \* resources the last step read or passed to the OS
    nif,           \* (*interface_ptr).dwNumberOfItems
    i,             \* interfaces taken from the interface list so far
    nprof,         \* (*wlan_profile_ptr).dwNumberOfItems
    j,             \* profiles taken from the current profile list so far
    string_slice,  \* the name buffer of the descriptor last taken
    profile_name,  \* Option: decoded name of the current profile
    raw,           \* Option: the document behind profile_xml_data (PWSTR)
    xml_string,    \* Option: the local copy of the document
    root,          \* Option: the document element
    auth_type,     \* Option: text of the authentication node
    stdout,        \* Option: line printed for the current item
    stderr,        \* Option: message logged for the current item
    printed,       \* <<interface, profile>> of every line printed, in order
    q_xml,         \* traverse_xml_tree tried alone: its argument xml,
    q_path,        \* its argument node_path,
    q_result       \* and what it returned

qvars == <<q_xml, q_path, q_result>>
vars == <<pc, exit_code, mem, used, nif, i, nprof, j, string_slice, profile_name,
          raw, xml_string, root, auth_type, stdout, stderr, printed, qvars>>

Resources == {"handle", "iflist", "plist", "doc"}

\* A resource is live from its acquisition to its first release.
Live(r) == mem[r].acq /\ mem[r].frees = 0

\* The OS hands out a fresh resource r.
acquire(m, r) == [m EXCEPT ![r] = [acq |-> TRUE, frees |-> 0]]
\* WlanFreeMemory / WlanCloseHandle on resource r.
release(m, r) == [m EXCEPT ![r].frees = @ + 1]

\* eprintln! of a fixed message: none of them has a format argument but the
\* error value of line 151, which names no interface or profile.
Diag(text) == Some([text |-> text, args |-> <<>>])

\* The three println! lines of the dispatch, by their format arguments.
NoPasswordLine(name) ==
    [fmt |-> "Wi-Fi name: {}, No password",
     name |-> to_string_lossy(name), auth |-> None, key |-> None]
\* A variant of PasswordLine with the last two arguments in the other order.
PasswordLine_Swapped(name, auth, password) ==
    [fmt |-> "Wi-Fi name: {}, Authentication: {}, Password: {}",
     name |-> to_string_lossy(name), auth |-> Some(password), key |-> Some(auth)]
PasswordLine(name, auth, password) ==
    [fmt |-> "Wi-Fi name: {}, Authentication: {}, Password: {}",
     name |-> to_string_lossy(name), auth |-> Some(auth), key |-> Some(password)]
NotSupportedLine(name, auth) ==
    [fmt |-> "Wi-Fi name: {}, Authentication: {}, Password retrieval not supported",
     name |-> to_string_lossy(name), auth |-> Some(auth), key |-> None]

\* Variants of arm: one without the "open" arm, one that compares the type
\* without regard to case.
arm_NoOpen(t) == IF t \in {"WPA2", "WPA2PSK"} THEN "psk" ELSE "other"
arm_AnyCase(t) == IF t = "open" THEN "open"
                  ELSE IF t \in {"WPA2", "WPA2PSK", "wpa2", "wpa2psk"} THEN "psk"
                  ELSE "other"

\* The arm of `match auth_type.as_str()` that a type selects.
arm(t) == IF t = "open" THEN "open"
          ELSE IF t \in {"WPA2", "WPA2PSK"} THEN "psk"
          ELSE "other"

\* `break` where the loops have `continue`.
BreakInterface == "free_iflist"
BreakProfile == "iface"

\* `continue` in the interface loop and in the profile loop.
ContinueInterface == "iface"
ContinueProfile == "profile"

Init ==
    /\ pc = "start"
    /\ exit_code = -1
    /\ mem = [r \in Resources |-> [acq |-> FALSE, frees |-> 0]]
    /\ used = {}
    /\ nif = 0 /\ i = 0 /\ nprof = 0 /\ j = 0
    /\ string_slice = <<>>
    /\ profile_name = None
    /\ raw = None
    /\ xml_string = None
    /\ root = None
    /\ auth_type = None
    /\ stdout = None
    /\ stderr = None
    /\ printed = <<>>
    /\ q_xml = NoTree /\ q_path = <<>> /\ q_result = None

(* ----------------------------- main() --------------------------------- *)
\* line 146: open_wlan_handle(..).expect(..): a failure panics.
OpenHandle ==
    /\ pc = "start"
    /\ UNCHANGED qvars
    /\ \E ok \in BOOLEAN :
         IF ok
         THEN /\ mem' = acquire(mem, "handle")
              /\ pc' = "enum"
              /\ exit_code' = exit_code
         ELSE /\ mem' = mem
              /\ pc' = "exit"
              /\ exit_code' = 101
    /\ used' = {}
    /\ UNCHANGED <<nif, i, nprof, j, string_slice, profile_name, raw, xml_string,
                   root, auth_type, stdout, stderr, printed>>

\* A variant of EnumFailed that exits without closing the handle.
EnumFailed_NoClose ==
    /\ stderr' = Diag("Failed to get the wireless interfaces")
    /\ mem' = mem
    /\ exit_code' = 1
    /\ pc' = "exit"
    /\ UNCHANGED <<nif, i>>

\* A variant of EnumFailed that ends the process with status 0.
EnumFailed_ExitZero ==
    /\ stderr' = Diag("Failed to get the wireless interfaces")
    /\ mem' = release(mem, "handle")
    /\ exit_code' = 0
    /\ pc' = "exit"
    /\ UNCHANGED <<nif, i>>

\* lines 150-154: log, WlanCloseHandle, exit(1).
EnumFailed ==
    /\ stderr' = Diag("Failed to get the wireless interfaces")
    /\ mem' = release(mem, "handle")
    /\ exit_code' = 1
    /\ pc' = "exit"
    /\ UNCHANGED <<nif, i>>

\* lines 148-162: enum_wlan_interfaces; on failure log, close the handle and
\* exit(1).
EnumInterfaces ==
    /\ pc = "enum"
    /\ UNCHANGED qvars
    /\ used' = {"handle"}
    /\ \/ EnumFailed
       \/ \E n \in 0..MaxIfaces :
            /\ mem' = acquire(mem, "iflist")
            /\ nif' = n
            /\ i' = 0
            /\ pc' = "iface"
            /\ UNCHANGED <<stderr, exit_code>>
    /\ UNCHANGED <<nprof, j, string_slice, profile_name, raw, xml_string, root,
                   auth_type, stdout, printed>>

\* lines 164-171: take the next interface descriptor and decode its
\* description; an undecodable one is logged and skipped.
IfaceNext ==
    /\ pc = "iface" /\ i < nif
    /\ UNCHANGED qvars
    /\ used' = {"iflist"}
    /\ i' = i + 1
    /\ \E b \in Buffers :
         /\ string_slice' = b
         /\ IF parse_utf16_slice(b) = None
            THEN /\ stderr' = Diag("Could not parse out interface description")
                 /\ pc' = ContinueInterface
            ELSE /\ stderr' = None
                 /\ pc' = "grab"
    /\ stdout' = None
    /\ UNCHANGED <<exit_code, mem, nif, nprof, j, profile_name, raw, xml_string,
                   root, auth_type, printed>>

\* lines 173-186: grab_interface_profiles; a failure is logged and the
\* interface skipped.
GrabProfiles ==
    /\ pc = "grab"
    /\ UNCHANGED qvars
    /\ used' = {"handle", "iflist"}
    /\ \/ /\ stderr' = Diag("Failed to retrieve profiles")
          /\ pc' = ContinueInterface
          /\ UNCHANGED <<mem, nprof, j>>
       \/ \E n \in 0..MaxProfiles :
            /\ mem' = acquire(mem, "plist")
            /\ nprof' = n
            /\ j' = 0
            /\ pc' = "profile"
            /\ UNCHANGED stderr
    /\ UNCHANGED <<exit_code, nif, i, string_slice, profile_name, raw, xml_string,
                   root, auth_type, stdout, printed>>

\* A variant of ProfileNext that tries a profile again when its name is
\* undecodable.
ProfileNext_Retry ==
    /\ pc = "profile" /\ j < nprof
    /\ UNCHANGED qvars
    /\ used' = {"plist"}
    /\ \E b \in Buffers :
         /\ string_slice' = b
         /\ profile_name' = parse_utf16_slice(b)
         /\ IF parse_utf16_slice(b) = None
            THEN /\ stderr' = Diag("Could not parse out profile name")
                 /\ pc' = ContinueProfile
                 /\ j' = j
            ELSE /\ stderr' = None
                 /\ pc' = "get"
                 /\ j' = j + 1
    /\ mem' = [mem EXCEPT !["doc"] = [acq |-> FALSE, frees |-> 0]]
    /\ raw' = None /\ xml_string' = None /\ root' = None /\ auth_type' = None
    /\ stdout' = None
    /\ UNCHANGED <<exit_code, nif, i, nprof, printed>>

\* lines 188-195: take the next profile descriptor and decode its name; an
\* undecodable one is logged and skipped.  The locals of the previous
\* iteration are gone.
ProfileNext ==
    /\ pc = "profile" /\ j < nprof
    /\ UNCHANGED qvars
    /\ used' = {"plist"}
    /\ j' = j + 1
    /\ \E b \in Buffers :
         /\ string_slice' = b
         /\ profile_name' = parse_utf16_slice(b)
         /\ IF parse_utf16_slice(b) = None
            THEN /\ stderr' = Diag("Could not parse out profile name")
                 /\ pc' = ContinueProfile
            ELSE /\ stderr' = None
                 /\ pc' = "get"
    /\ mem' = [mem EXCEPT !["doc"] = [acq |-> FALSE, frees |-> 0]]
    /\ raw' = None /\ xml_string' = None /\ root' = None /\ auth_type' = None
    /\ stdout' = None
    /\ UNCHANGED <<exit_code, nif, i, nprof, printed>>

\* lines 250-251: the profile loop is over and the next interface follows;
\* nothing is released here.  The locals of the loop body are gone.
ProfileDone ==
    /\ pc = "profile" /\ j = nprof
    /\ UNCHANGED qvars
    /\ pc' = "iface"
    /\ used' = {}
    /\ mem' = [mem EXCEPT !["doc"] = [acq |-> FALSE, frees |-> 0]]
    /\ string_slice' = <<>>
    /\ profile_name' = None
    /\ raw' = None /\ xml_string' = None /\ root' = None /\ auth_type' = None
    /\ stdout' = None /\ stderr' = None
    /\ UNCHANGED <<exit_code, nif, i, nprof, j, printed>>

\* A variant of GetProfileOk that releases the document before it is copied.
GetProfileOk_FreeFirst(d) ==
    /\ mem' = release(acquire(mem, "doc"), "doc")
    /\ raw' = Some(d)
    /\ pc' = "copy"
    /\ UNCHANGED stderr

\* lines 118-130: WlanGetProfile succeeded and profile_xml_data points to the
\* document d.
GetProfileOk(d) ==
    /\ mem' = acquire(mem, "doc")
    /\ raw' = Some(d)
    /\ pc' = "copy"
    /\ UNCHANGED stderr

\* get_profile_xml, lines 115-130 (called at line 197): WlanGetProfile; its
\* failure is returned, logged at line 200 and the profile skipped.
WlanGetProfileCall ==
    /\ pc = "get"
    /\ UNCHANGED qvars
    /\ used' = {"handle", "iflist"}
    /\ \/ /\ stderr' = Diag("Failed to get profile XML data")
          /\ pc' = ContinueProfile
          /\ UNCHANGED <<mem, raw>>
       \/ \E d \in RawDocs : GetProfileOk(d)
    /\ UNCHANGED <<exit_code, nif, i, nprof, j, string_slice, profile_name,
                   xml_string, root, auth_type, stdout, printed>>

\* get_profile_xml, line 132: profile_xml_data.to_string() copies the
\* document, and fails on text that is not valid UTF-16.
CopyDoc ==
    /\ pc = "copy"
    /\ UNCHANGED qvars
    /\ used' = {"doc"}
    /\ xml_string' = IF Unwrap(raw).kind = "invalid_utf16" THEN None ELSE raw
    /\ pc' = "free"
    /\ UNCHANGED <<exit_code, mem, nif, i, nprof, j, string_slice, profile_name,
                   raw, root, auth_type, stdout, stderr, printed>>

\* A variant of FreeDoc without the WlanFreeMemory of the Err branch.
FreeDoc_LeakOnErr ==
    /\ pc = "free"
    /\ UNCHANGED qvars
    /\ used' = {}
    /\ raw' = None
    /\ IF xml_string = None
       THEN /\ mem' = mem
            /\ stderr' = Diag("Failed to get profile XML data")
            /\ pc' = ContinueProfile
       ELSE /\ mem' = release(mem, "doc")
            /\ stderr' = stderr
            /\ pc' = "load"
    /\ UNCHANGED <<exit_code, nif, i, nprof, j, string_slice, profile_name,
                   xml_string, root, auth_type, stdout, printed>>

\* get_profile_xml, lines 133-141: WlanFreeMemory on either branch, then the
\* return; an Err is logged at line 200 and the profile skipped.
FreeDoc ==
    /\ pc = "free"
    /\ UNCHANGED qvars
    /\ used' = {}
    /\ mem' = release(mem, "doc")
    /\ raw' = None
    /\ IF xml_string = None
       THEN /\ stderr' = Diag("Failed to get profile XML data")
            /\ pc' = ContinueProfile
       ELSE /\ stderr' = stderr
            /\ pc' = "load"
    /\ UNCHANGED <<exit_code, nif, i, nprof, j, string_slice, profile_name,
                   xml_string, root, auth_type, stdout, printed>>

\* lines 205-219: load_xml_data and DocumentElement; either failure is
\* logged and the profile skipped.
LoadXml ==
    /\ pc = "load"
    /\ UNCHANGED qvars
    /\ used' = {}
    /\ IF Unwrap(xml_string).kind = "xml"
       THEN /\ root' = Some(Unwrap(xml_string).tree)
            /\ stderr' = stderr
            /\ pc' = "auth"
       ELSE /\ root' = None
            /\ stderr' = Diag("Failed to load XML data")
            /\ pc' = ContinueProfile
    /\ UNCHANGED <<exit_code, mem, nif, i, nprof, j, string_slice, profile_name,
                   raw, xml_string, auth_type, stdout, printed>>

\* lines 221-230: the authentication type; its absence is logged and the
\* profile skipped.
QueryAuth ==
    /\ pc = "auth"
    /\ UNCHANGED qvars
    /\ used' = {}
    /\ auth_type' = traverse_xml_tree(Unwrap(root), AuthPath)
    /\ IF traverse_xml_tree(Unwrap(root), AuthPath) = None
       THEN /\ stderr' = Diag("Failed to retrieve authentication type")
            /\ pc' = ContinueProfile
       ELSE /\ stderr' = stderr
            /\ pc' = "dispatch"
    /\ UNCHANGED <<exit_code, mem, nif, i, nprof, j, string_slice, profile_name,
                   raw, xml_string, root, stdout, printed>>

\* lines 232-249: the line, if any, that the match prints.
ResultLine(name, t, xml) ==
    LET password == traverse_xml_tree(xml, KeyPath)
    IN CASE arm(t) = "open" -> Some(NoPasswordLine(name))
         [] arm(t) = "psk" -> IF IsSome(password)
                              THEN Some(PasswordLine(name, t, Unwrap(password)))
                              ELSE None
         [] OTHER -> Some(NotSupportedLine(name, t))

\* Variants of Dispatch: one whose line goes before the lines printed so
\* far, one that prints its line twice.
Dispatch_Prepend ==
    /\ pc = "dispatch"
    /\ UNCHANGED qvars
    /\ used' = {}
    /\ stdout' = ResultLine(Unwrap(profile_name), Unwrap(auth_type), Unwrap(root))
    /\ printed' = IF IsSome(stdout') THEN <<(<<i, j>>)>> \o printed ELSE printed
    /\ pc' = "profile"
    /\ UNCHANGED <<exit_code, mem, nif, i, nprof, j, string_slice, profile_name,
                   raw, xml_string, root, auth_type, stderr>>
Dispatch_PrintsTwice ==
    /\ pc = "dispatch"
    /\ UNCHANGED qvars
    /\ used' = {}
    /\ stdout' = ResultLine(Unwrap(profile_name), Unwrap(auth_type), Unwrap(root))
    /\ printed' = IF IsSome(stdout') THEN printed \o <<(<<i, j>>), (<<i, j>>)>>
                  ELSE printed
    /\ pc' = "profile"
    /\ UNCHANGED <<exit_code, mem, nif, i, nprof, j, string_slice, profile_name,
                   raw, xml_string, root, auth_type, stderr>>

\* lines 232-250: dispatch on the authentication type and print.
Dispatch ==
    /\ pc = "dispatch"
    /\ UNCHANGED qvars
    /\ used' = {}
    /\ stdout' = ResultLine(Unwrap(profile_name), Unwrap(auth_type), Unwrap(root))
    /\ printed' = IF IsSome(stdout') THEN Append(printed, <<i, j>>) ELSE printed
    /\ pc' = "profile"
    /\ UNCHANGED <<exit_code, mem, nif, i, nprof, j, string_slice, profile_name,
                   raw, xml_string, root, auth_type, stderr>>

\* line 252: the interface loop is over.
IfaceDone ==
    /\ pc = "iface" /\ i = nif
    /\ UNCHANGED qvars
    /\ pc' = "free_iflist"
    /\ used' = {}
    /\ UNCHANGED <<exit_code, mem, nif, i, nprof, j, string_slice, profile_name,
                   raw, xml_string, root, auth_type, stdout, stderr, printed>>

\* line 253: WlanFreeMemory(interface_ptr).
FreeIfList ==
    /\ pc = "free_iflist"
    /\ UNCHANGED qvars
    /\ mem' = release(mem, "iflist")
    /\ pc' = "close"
    /\ used' = {}
    /\ UNCHANGED <<exit_code, nif, i, nprof, j, string_slice, profile_name, raw,
                   xml_string, root, auth_type, stdout, stderr, printed>>

\* lines 254-255: WlanCloseHandle, and main returns.
CloseHandle ==
    /\ pc = "close"
    /\ UNCHANGED qvars
    /\ mem' = release(mem, "handle")
    /\ pc' = "exit"
    /\ exit_code' = 0
    /\ used' = {"handle"}
    /\ UNCHANGED <<nif, i, nprof, j, string_slice, profile_name, raw, xml_string,
                   root, auth_type, stdout, stderr, printed>>

Next ==
    \/ OpenHandle
    \/ EnumInterfaces
    \/ IfaceNext
    \/ GrabProfiles
    \/ ProfileNext
    \/ ProfileDone
    \/ WlanGetProfileCall
    \/ CopyDoc
    \/ FreeDoc
    \/ LoadXml
    \/ QueryAuth
    \/ Dispatch
    \/ IfaceDone
    \/ FreeIfList
    \/ CloseHandle

Spec == Init /\ [][Next]_vars

\* main() is the only thread and none of its steps waits: whenever a step is
\* possible, one is taken.
FairSpec == Spec /\ WF_vars(Next)

(* ------------------- traverse_xml_tree tried alone -------------------- *)
\* Sequences over S of length at most n.
SeqsUpTo(S, n) == UNION {[1..k -> S] : k \in 0..n}

\* The trees the query is tried on: a root with at most two children, each a
\* processing instruction or an element with at most MaxKids children, which
\* are elements with or without text or a processing instruction.
QNames == {"a", "b"}
QLeaves == {Leaf("a", ""), Leaf("a", "x"), Leaf("b", "y"), PI("a", "p")}
QNodes == {El(n, ks) : n \in QNames, ks \in SeqsUpTo(QLeaves, MaxKids)}
              \cup {PI("a", "p")}
QTrees == {El("r", ks) : ks \in {<<>>} \cup {<<x>> : x \in QNodes}
                                      \cup {<<x, y>> : x \in QNodes, y \in QNodes}}
QPaths == SeqsUpTo(QNames, MaxPath)

InitQuery ==
    /\ pc = "query"
    /\ q_xml \in QTrees /\ q_path \in QPaths /\ q_result = None
    /\ exit_code = -1
    /\ mem = [r \in Resources |-> [acq |-> FALSE, frees |-> 0]]
    /\ used = {}
    /\ nif = 0 /\ i = 0 /\ nprof = 0 /\ j = 0
    /\ string_slice = <<>>
    /\ profile_name = None
    /\ raw = None
    /\ xml_string = None
    /\ root = None
    /\ auth_type = None
    /\ stdout = None
    /\ stderr = None
    /\ printed = <<>>

\* One call of traverse_xml_tree(&q_xml, &q_path).
Query ==
    /\ pc = "query"
    /\ pc' = "queried"
    /\ q_result' = traverse_xml_tree(q_xml, q_path)
    /\ UNCHANGED <<exit_code, mem, used, nif, i, nprof, j, string_slice,
                   profile_name, raw, xml_string, root, auth_type, stdout, stderr,
                   printed, q_xml, q_path>>

NextQuery == Query

SpecQuery == InitQuery /\ [][NextQuery]_vars

(* ============================ properties ============================== *)

Released(r) == mem[r].frees

\* C1: when the profile loop of an interface is over and the next interface
\* is about to be started, the profile list acquired for it has been
\* released exactly once.
C1_ProfileListReleasedOnce ==
    (pc = "iface" /\ mem["plist"].acq) => Released("plist") = 1

\* C2: an opened session handle is never closed twice, is open as long as
\* the run lasts, and is closed exactly once when the run has ended, by
\* exit(1) after an interface-list failure as well as by the return of main.
C2_HandleClosedOnce ==
    /\ Released("handle") <= 1
    /\ ~mem["handle"].acq => Released("handle") = 0
    /\ pc # "exit" => Released("handle") = 0
    /\ (pc = "exit" /\ mem["handle"].acq) => Released("handle") = 1

\* The run ended early on an interface-list failure with the handle closed.
C2_Witness ==
    /\ pc = "exit" /\ exit_code = 1
    /\ mem["handle"].acq /\ Released("handle") = 1
    /\ ~mem["iflist"].acq

\* C3: an acquired interface list is released exactly once by the end of
\* the run and only after every descriptor was taken; a list that was not
\* acquired is not released.
C3_InterfaceListReleasedOnce ==
    /\ Released("iflist") <= 1
    /\ ~mem["iflist"].acq => Released("iflist") = 0
    /\ Released("iflist") = 1 => (i = nif /\ pc \in {"close", "exit"})
    /\ (pc = "exit" /\ mem["iflist"].acq) => Released("iflist") = 1

\* The run ended after a walk over two interfaces, the last of which failed,
\* with the list released.
C3_Witness ==
    /\ pc = "exit" /\ exit_code = 0
    /\ nif = 2 /\ i = 2
    /\ stderr = Diag("Failed to retrieve profiles")
    /\ Released("iflist") = 1

\* C4: every resource a step reads or passes to the operating system (the
\* session handle, a descriptor of a list, the raw document) is live when
\* the step is taken: acquired and not yet released.
C4_NoUseAfterRelease == [][\A r \in used' : Live(r)]_vars

\* The parsed copy of a document is in use after the raw document was
\* released, while the handle and both lists are live.
C4_Witness ==
    /\ pc = "dispatch"
    /\ mem["doc"].acq /\ Released("doc") = 1
    /\ Live("handle") /\ Live("iflist") /\ Live("plist")

\* The profile-list acquisition of the interface last taken has just failed
\* and later interfaces remain.
GrabFailedWithMore ==
    /\ pc = "iface" /\ i < nif
    /\ stderr = Diag("Failed to retrieve profiles")

\* C5 (as claimed): after a failed profile-list acquisition, the next
\* interface is taken, its description is decoded and its profile-list
\* acquisition is requested.
C5_NextInterfaceRequested ==
    [][GrabFailedWithMore => (i' = i + 1 /\ pc' = "grab")]_vars

\* C5 (amended): a failed profile-list acquisition leaves the run going at
\* the head of the interface loop; from there every remaining interface is
\* taken and its description decoded, its profile-list acquisition is
\* requested exactly when the description is decodable, and the run leaves
\* the loop only when no interface remains.
C5_LaterInterfacesAttempted ==
    [][ /\ (pc = "grab" /\ pc' # "profile")
            => (pc' = "iface" /\ exit_code' = -1 /\ i' = i /\ nif' = nif)
        /\ (pc = "iface" /\ i < nif)
            => /\ i' = i + 1 /\ nif' = nif
               /\ "iflist" \in used'
               /\ string_slice' \in Buffers
               /\ pc' = IF parse_utf16_slice(string_slice') = None
                        THEN "iface" ELSE "grab"
        /\ pc = "grab" => "handle" \in used'
        /\ (pc = "iface" /\ pc' # "iface" /\ pc' # "grab") => i = nif
      ]_vars

\* The acquisition failed for the first of two interfaces and the second is
\* about to be taken.
C5_Witness == GrabFailedWithMore /\ i = 1 /\ nif = 2

\* A step on which the current profile fails: its name is undecodable, its
\* document is unreadable (the request or the copy failed), its document is
\* malformed, or its authentication node is absent.
ProfileFailure ==
    \/ pc = "profile" /\ j < nprof /\ parse_utf16_slice(string_slice') = None
    \/ pc = "get" /\ raw' = None
    \/ pc = "free" /\ xml_string = None
    \/ pc = "load" /\ Unwrap(xml_string).kind # "xml"
    \/ pc = "auth" /\ traverse_xml_tree(Unwrap(root), AuthPath) = None

\* C6: a profile-scoped failure prints no line and leaves the run at the
\* head of the profile loop of the same interface, from where every
\* remaining profile is taken; the profile loop is left only when no profile
\* remains and the interface loop only when no interface remains.
C6_ProfileFailureSkipsOne ==
    [][ /\ ProfileFailure
            => /\ pc' = "profile"
               /\ stdout' = None /\ printed' = printed
               /\ IsSome(stderr')
               /\ exit_code' = -1
               /\ i' = i /\ nif' = nif /\ nprof' = nprof
               /\ j' = IF pc = "profile" THEN j + 1 ELSE j
        /\ (pc = "profile" /\ j < nprof) => j' = j + 1
        /\ (pc = "profile" /\ pc' = "iface") => j = nprof
        /\ (pc = "iface" /\ pc' = "free_iflist") => i = nif
      ]_vars

\* The first profile of an interface was skipped for its missing
\* authentication node; a later profile and a later interface remain.
C6_Witness ==
    /\ pc = "profile"
    /\ stderr = Diag("Failed to retrieve authentication type")
    /\ stdout = None
    /\ j = 1 /\ nprof = 2 /\ i < nif

\* The dispatch has acted on the current profile, whose type is t.
Dispatched(t) == pc = "profile" /\ auth_type = Some(t)
HasKey == IsSome(traverse_xml_tree(Unwrap(root), KeyPath))

\* C7: a WPA2 or WPA2PSK profile without the key path is reported with its
\* name and type and without a key.
C7_KeyUnavailableReported ==
    \A t \in {"WPA2", "WPA2PSK"} :
        (Dispatched(t) /\ ~HasKey)
            => /\ IsSome(stdout)
               /\ Unwrap(stdout).name = to_string_lossy(Unwrap(profile_name))
               /\ Unwrap(stdout).auth = Some(t)
               /\ Unwrap(stdout).key = None

\* C8: a WPA2 or WPA2PSK profile with the key path is reported with its
\* name, its type and, as the key, the text the query returns at that path.
C8_KeyReportedVerbatim ==
    \A t \in {"WPA2", "WPA2PSK"} :
        (Dispatched(t) /\ HasKey)
            => /\ IsSome(stdout)
               /\ Unwrap(stdout).fmt = "Wi-Fi name: {}, Authentication: {}, Password: {}"
               /\ Unwrap(stdout).name = to_string_lossy(Unwrap(profile_name))
               /\ Unwrap(stdout).auth = Some(t)
               /\ Unwrap(stdout).key = traverse_xml_tree(Unwrap(root), KeyPath)
               /\ printed # <<>> /\ printed[Len(printed)] = <<i, j>>

\* A WPA2PSK document with the key "hunter2" was reported with that key,
\* under a name that holds an unpaired surrogate.
C8_Witness ==
    /\ Dispatched("WPA2PSK")
    /\ root = Some(WLANProfile(Some("WPA2PSK"), Some("hunter2")))
    /\ profile_name = Some(<<55296>>)
    /\ IsSome(stdout) /\ Unwrap(stdout).key = Some("hunter2")

\* C9: an "open" profile is reported as having no password, with its name
\* and without key material, whatever its document holds.
C9_OpenHasNoKey ==
    Dispatched("open")
        => /\ IsSome(stdout)
           /\ Unwrap(stdout).fmt = "Wi-Fi name: {}, No password"
           /\ Unwrap(stdout).name = to_string_lossy(Unwrap(profile_name))
           /\ Unwrap(stdout).key = None
           /\ printed # <<>> /\ printed[Len(printed)] = <<i, j>>

\* An "open" document that holds a key was reported without it.
C9_Witness ==
    /\ Dispatched("open")
    /\ HasKey
    /\ IsSome(stdout) /\ Unwrap(stdout).key = None

\* C10: a profile of any other type, the empty one included, is reported as
\* not supported with its name and type and without key material, and the
\* run goes on at the head of the profile loop.
C10_OtherTypeNotSupported ==
    (/\ pc = "profile" /\ IsSome(auth_type)
     /\ Unwrap(auth_type) \notin {"open", "WPA2", "WPA2PSK"})
        => /\ IsSome(stdout)
           /\ Unwrap(stdout).fmt =
                "Wi-Fi name: {}, Authentication: {}, Password retrieval not supported"
           /\ Unwrap(stdout).name = to_string_lossy(Unwrap(profile_name))
           /\ Unwrap(stdout).auth = auth_type
           /\ Unwrap(stdout).key = None
           /\ printed # <<>> /\ printed[Len(printed)] = <<i, j>>
           /\ exit_code = -1

\* A document with an empty authentication text and a key was reported as
\* not supported, and a further profile remains.
C10_Witness ==
    /\ Dispatched("")
    /\ HasKey
    /\ IsSome(stdout) /\ Unwrap(stdout).auth = Some("") /\ Unwrap(stdout).key = None
    /\ j < nprof

\* C12: the exit status is -1 (none) while the run lasts; at the end it is
\* non-zero exactly when the session was not opened or the interface list
\* was not acquired.
C12_ExitStatus ==
    /\ pc # "exit" => exit_code = -1
    /\ pc = "exit"
         => /\ exit_code \in {0, 1, 101}
            /\ (exit_code # 0) <=> (~mem["handle"].acq \/ ~mem["iflist"].acq)

\* The run ended with status 0 although its last interface failed.
C12_Witness ==
    /\ pc = "exit" /\ exit_code = 0
    /\ IsSome(stderr)
    /\ mem["handle"].acq /\ mem["iflist"].acq

TagLess(a, b) == a[1] < b[1] \/ (a[1] = b[1] /\ a[2] < b[2])

\* C13: interfaces are taken one by one in list order, each only when the
\* profile loop of the one before is over; profiles are taken one by one in
\* list order; a line is printed for the profile being processed, after the
\* lines printed before, so the lines are in the order of the profiles.
C13_Order ==
    [][ /\ i' \in {i, i + 1}
        /\ i' = i + 1 => (pc = "iface" /\ j = nprof)
        /\ \/ j' = j
           \/ j' = j + 1 /\ pc = "profile"
           \/ j' = 0 /\ pc = "grab"
        /\ printed' # printed
             => (pc = "dispatch" /\ printed' = Append(printed, <<i, j>>))
        /\ \A k \in 1..(Len(printed') - 1) : TagLess(printed'[k], printed'[k + 1])
      ]_vars

\* Lines were printed for both profiles of the first interface and for a
\* profile of the second.
C13_Witness ==
    /\ Len(printed) = 3
    /\ printed[1] = <<1, 1>> /\ printed[2] = <<1, 2>> /\ printed[3][1] = 2

\* The buffer s has no null terminator / name is what precedes its first one.
Unterminated(s) == \A k \in 1..Len(s) : s[k] # 0
BeforeFirstNull(s, name) ==
    \E k \in 1..Len(s) :
        /\ s[k] = 0 /\ \A h \in 1..(k - 1) : s[h] # 0
        /\ name = SubSeq(s, 1, k - 1)

\* C14: decoding a name buffer without null terminator or with empty
\* content fails and its interface or profile is skipped (logged, loop head);
\* otherwise the decoded text is the code units before the first null.
C14_DecodeFailsOnEmptyOrUnterminated ==
    [][ /\ (pc = "profile" /\ j < nprof)
            => IF Unterminated(string_slice') \/ string_slice'[1] = 0
               THEN pc' = "profile" /\ IsSome(stderr') /\ profile_name' = None
               ELSE /\ pc' = "get" /\ IsSome(profile_name')
                    /\ BeforeFirstNull(string_slice', Unwrap(profile_name'))
        /\ (pc = "iface" /\ i < nif)
            => IF Unterminated(string_slice') \/ string_slice'[1] = 0
               THEN pc' = "iface" /\ IsSome(stderr')
               ELSE pc' = "grab"
      ]_vars

\* C17: the raw document of a successful request is live while it is copied
\* and released exactly once when the request operation has returned,
\* whether the copy succeeded or not; without a document nothing is released.
C17_DocumentReleasedOnce ==
    /\ Released("doc") <= 1
    /\ ~mem["doc"].acq => Released("doc") = 0
    /\ pc \in {"copy", "free"} => Live("doc")
    /\ (mem["doc"].acq /\ pc \notin {"copy", "free"}) => Released("doc") = 1

\* The copy of a document failed, the request operation returned the error
\* and the document has been released.
C17_Witness ==
    /\ pc = "profile"
    /\ stderr = Diag("Failed to get profile XML data")
    /\ mem["doc"].acq /\ Released("doc") = 1

\* A step on which the interface taken fails: its description is
\* undecodable or its profile list is unavailable.
InterfaceFailure ==
    \/ pc = "iface" /\ i < nif /\ parse_utf16_slice(string_slice') = None
    \/ pc = "grab" /\ pc' # "profile"

\* C18: every interface-scoped and profile-scoped failure is logged with a
\* message that has an argument telling which interface or profile failed.
C18_FailureLogIdentifiesItem ==
    [][(InterfaceFailure \/ ProfileFailure)
          => (IsSome(stderr') /\ Unwrap(stderr').args # <<>>)]_vars

\* C19: every run ends, with a fatal status or after the interface loop is
\* over; until then no index goes back or stays when an item is taken, so
\* no item is taken twice and the walk never restarts.
C19_Terminates ==
    /\ <>(pc = "exit")
    /\ [][ /\ i' >= i /\ i' <= nif'
           /\ (j' >= j \/ (pc = "grab" /\ j' = 0)) /\ j' <= nprof'
           /\ (pc = "iface" /\ pc' # "free_iflist") => i' = i + 1
           /\ (pc = "profile" /\ pc' # "iface") => j' = j + 1
           /\ pc' = "exit" => (exit_code' \in {1, 101} \/ i = nif)
           /\ pc = "exit" => pc' = "exit"
         ]_vars

\* A run over the most interfaces ended after it had printed a line.
C19_Witness ==
    /\ pc = "exit" /\ exit_code = 0
    /\ nif = MaxIfaces /\ i = nif
    /\ printed # <<>>

\* C20: a line is printed only for the profile being processed, whose
\* position <<i, j>> is that of a profile taken from its list, and no two
\* lines are for the same profile; a failing interface prints no line, and a
\* document is requested only for a profile taken from an acquired list.
C20_AtMostOneLinePerProfile ==
    [][ /\ printed' # printed
            => /\ pc = "dispatch" /\ printed' = Append(printed, <<i, j>>)
               /\ i \in 1..nif /\ j \in 1..nprof
        /\ \A k, l \in 1..Len(printed') : k # l => printed'[k] # printed'[l]
        /\ InterfaceFailure
            => /\ printed' = printed /\ pc' = "iface"
               /\ \A k \in 1..Len(printed) : printed[k][1] # i'
        /\ pc' = "get" => (pc = "profile" /\ Live("plist") /\ j' \in 1..nprof)
        /\ (pc = "iface" /\ pc' = "profile") => FALSE
      ]_vars

\* The second interface failed after two lines were printed for the first.
C20_Witness ==
    /\ pc = "iface" /\ i = 2
    /\ stderr = Diag("Could not parse out interface description")
    /\ Len(printed) = 2 /\ printed[2] = <<1, 2>>

(* ------------------ properties of traverse_xml_tree ------------------- *)
\* The texts of the nodes that some chain of children, whose names match
\* path segment by segment, reaches from node.
RECURSIVE ChainTexts(_, _)
ChainTexts(node, path) ==
    IF path = <<>> THEN {InnerText(node)}
    ELSE UNION { ChainTexts(node.kids[k], Tail(path)) :
                   k \in {h \in 1..Len(node.kids) : node.kids[h].name = path[1]} }

Least(S) == CHOOSE k \in S : \A h \in S : k <= h

\* The descent without backtracking: at each segment but the last the first
\* child element of that name is entered, at the last segment the first child
\* of that name gives its text; the empty path reaches nothing.
RECURSIVE FirstMatchText(_, _)
FirstMatchText(node, path) ==
    IF path = <<>> THEN None
    ELSE LET c == {k \in 1..Len(node.kids) :
                     /\ node.kids[k].name = path[1]
                     /\ (Len(path) = 1 \/ node.kids[k].elem)}
         IN IF c = {} THEN None
            ELSE IF Len(path) = 1 THEN Some(InnerText(node.kids[Least(c)]))
            ELSE FirstMatchText(node.kids[Least(c)], Tail(path))

\* C11 (as claimed, for paths of at least one segment): the query returns
\* "not found" exactly when no chain of children matching the path exists,
\* and otherwise the text of the node a matching chain ends at.
C11_NotFoundIffNoChain ==
    (pc = "queried" /\ q_path # <<>>)
        => /\ (q_result = None) <=> (ChainTexts(q_xml, q_path) = {})
           /\ IsSome(q_result) => Unwrap(q_result) \in ChainTexts(q_xml, q_path)

\* C11 (amended): the query returns what the descent without backtracking
\* reaches: "not found" when no matching chain exists, when the path is
\* empty, or when the first matching child element at some level lacks the
\* rest of the path; otherwise the text of the node reached, which is the
\* node a matching chain ends at, the empty string when it has no text.
C11_FirstMatchDescent ==
    pc = "queried"
        => /\ q_result = FirstMatchText(q_xml, q_path)
           /\ (q_path # <<>> /\ ChainTexts(q_xml, q_path) = {}) => q_result = None
           /\ (IsSome(q_result) /\ q_path # <<>>)
                => Unwrap(q_result) \in ChainTexts(q_xml, q_path)

\* The path a/a ends at a node without text, and the query returned the
\* empty string.
C11_Witness ==
    /\ pc = "queried"
    /\ q_path = <<"a", "a">>
    /\ q_xml = El("r", <<El("a", <<Leaf("a", "")>>)>>)
    /\ q_result = Some("")

\* The descent that follows, at each segment, the first child of that name
\* and no other: a first child that is no element has nothing below it.
RECURSIVE StrictFirstText(_, _)
StrictFirstText(node, path) ==
    IF path = <<>> THEN None
    ELSE LET c == {k \in 1..Len(node.kids) : node.kids[k].name = path[1]}
         IN IF c = {} THEN None
            ELSE IF Len(path) = 1 THEN Some(InnerText(node.kids[Least(c)]))
            ELSE StrictFirstText(node.kids[Least(c)], Tail(path))

\* C15: at each level only the first child, in document order, whose name
\* equals the path segment is followed, so the result is the one that child
\* alone gives.
C15_OnlyFirstNamedChild ==
    pc = "queried" => q_result = StrictFirstText(q_xml, q_path)

\* C16: the query with the empty path returns "no such path" for every tree.
C16_EmptyPathNotFound ==
    (pc = "queried" /\ q_path = <<>>) => q_result = None

\* The empty path was tried on a root with two children, one of them with
\* text of its own.
C16_Witness ==
    /\ pc = "queried" /\ q_path = <<>>
    /\ Len(q_xml.kids) = 2 /\ InnerText(q_xml) # ""
    /\ q_result = None

====
